---- MODULE Spec2Model ----
(***************************************************************************)
(* EdgeSplit: edge-routed A/B testing.                                     *)
(*                                                                         *)
(* The model covers the two routers of the repository (the multi-test      *)
(* worker of workers/template.ts and the per-test worker emitted by        *)
(* generateWorkerCode in lib/sync.ts), the sticky cookie, the static and   *)
(* Thompson bucket selection with its Gamma/Beta sampler, the KV keys the  *)
(* routers read, and the operations that change those keys.                *)
(*                                                                         *)
(* Text is modelled as a sequence of pieces whose concatenation is the     *)
(* string: ids, paths and cookie pairs are sequences of single characters, *)
(* so that RegExp search, startsWith and cookie parsing are computed on    *)
(* characters; the fixed attribute tail of the cookie uses word pieces.    *)
(*                                                                         *)
(* Numbers: percentages and the roll are integers counting 1/PctUnit of a  *)
(* percent; Gamma shapes are integers counting 1/ShapeDen; the positive    *)
(* reals returned by the sampler are abstracted to levels 1..MaxMag and a  *)
(* Beta sample is the exact fraction num/den of two such levels.           *)
(*                                                                         *)
(* Specifications: Spec routes requests over two created tests, with       *)
(* updates and syncs of the first; SpecStore starts from an empty KV       *)
(* namespace and follows create, update, delete and hand-written values,   *)
(* with requests whose awaited operations may reject; SpecSync steps       *)
(* syncTest and loadStats one KV operation at a time; SpecTS steps one     *)
(* chooseBucketTS call; SpecAdmin follows the management API (create,      *)
(* update, delete, sync, list) from an empty namespace; SpecRace steps two *)
(* create handlers one KV operation at a time; SpecCron follows create,    *)
(* delete and syncAllTests.                                                *)
(***************************************************************************)
EXTENDS Integers, Sequences, FiniteSets, TLC

(***************************************************************************)
(* Bounds of the model                                                     *)
(***************************************************************************)
PctUnit == 200      \* model units per one percent (one unit is 0.005 %)
ShapeDen == 2       \* model units per 1.0 of a Gamma shape
MaxMag == 2         \* levels abstracting the positive Gamma variates
MaxDepth == 4       \* call-stack frames available to the gammaSample recursion
MaxRejects == 2     \* rejected draws counted in one chooseBucketTS call

(***************************************************************************)
(* Program constants                                                       *)
(***************************************************************************)
MinViewsPerBucket == 100
MaxAgeSeconds == 2592000

Hundred == 100 * PctUnit
One == ShapeDen

Min(S) == CHOOSE x \in S : \A y \in S : x <= y
Abs(x) == IF x < 0 THEN 0 - x ELSE x

(***************************************************************************)
(* Text                                                                    *)
(***************************************************************************)
controlId == <<"c", "o", "n", "t", "r", "o", "l">>
VariantId(i) == <<"v", "a", "r", "i", "a", "n", "t", ToString(i)>>

\* The two test ids used: slugify("A") and slugify("B A").
TestA == <<"a">>
TestB == <<"b", "-", "a">>
TestIds == {TestA, TestB}

PathA == <<"/", "a">>
PathB == <<"/", "b">>
PathAx == <<"/", "a", "/", "x">>
PathAxy == <<"/", "a", "/", "x", "/", "y">>
PathZ == <<"/", "z">>
Paths == {PathA, PathB, PathAx, PathAxy, PathZ}

IsPrefixAt(s, t, i) ==
    /\ i + Len(t) - 1 <= Len(s)
    /\ \A k \in 1..Len(t) : s[i + k - 1] = t[k]

\* String.prototype.startsWith
startsWith(s, t) == IsPrefixAt(s, t, 1)

\* The attribute tail of the sticky cookie.
CookieAttrs ==
    <<";", " ", "Path", "=", "/",
      ";", " ", "Max-Age", "=", ToString(MaxAgeSeconds),
      ";", " ", "HttpOnly",
      ";", " ", "Secure",
      ";", " ", "SameSite", "=", "Lax">>

M_CookieValue_session(testId, bucket) ==
    testId \o <<"=">> \o bucket
      \o <<";", " ", "Path", "=", "/", ";", " ", "HttpOnly", ";", " ", "Secure",
           ";", " ", "SameSite", "=", "Lax">>

\* `${testConfig.id}=${bucket}; Path=/; Max-Age=2592000; HttpOnly; Secure; SameSite=Lax`
CookieValue(testId, bucket) == testId \o <<"=">> \o bucket \o CookieAttrs

\* First index >= from at which s holds piece c, Len(s)+1 when there is none.
IndexFrom(s, c, from) ==
    Min({k \in from..Len(s) : s[k] = c} \cup {Len(s) + 1})

\* getBucket: cookie.match(new RegExp(`${testId}=([^;]+)`)), match[1] or null.
\* The search is unanchored: the leftmost position where the id, "=" and at
\* least one character other than ";" follow each other.  <<>> is null.
getBucket(cookie, testId) ==
    LET pat == testId \o <<"=">>
        starts == {i \in 1..Len(cookie) :
                      /\ IsPrefixAt(cookie, pat, i)
                      /\ i + Len(pat) <= Len(cookie)
                      /\ cookie[i + Len(pat)] # ";"}
    IN  IF starts = {} THEN <<>>
        ELSE LET i == Min(starts)
                 from == i + Len(pat)
             IN  SubSeq(cookie, from, IndexFrom(cookie, ";", from) - 1)

\* The browser's reading of a Set-Cookie value: name up to the first "=",
\* value up to the first ";".
ParseSetCookie(sc) ==
    LET eq == IndexFrom(sc, "=", 1)
        semi == IndexFrom(sc, ";", 1)
    IN  [name |-> SubSeq(sc, 1, eq - 1), value |-> SubSeq(sc, eq + 1, semi - 1)]

\* The Cookie request header: the pairs name=value of the jar, joined by "; ",
\* in the order the client serialises them.
RECURSIVE CookieHeader(_, _)
CookieHeader(jar, order) ==
    IF order = <<>> THEN <<>>
    ELSE LET n == Head(order)
             pair == n \o <<"=">> \o jar[n]
         IN  IF Len(order) = 1 THEN pair
             ELSE pair \o <<";", " ">> \o CookieHeader(jar, Tail(order))

(***************************************************************************)
(* Test definitions                                                        *)
(***************************************************************************)
ControlUrl == "https://site.example/control"
VariantUrl(i) == "https://site.example/v" \o ToString(i)
EntryHost == "go.example.com"

Half == Hundred \div 2
Quarter == Hundred \div 4
Fifth == Hundred \div 5

\* Bodies of create and update requests (CreateTestRequest).  entryPath is
\* the full entry URL, held as the host and path that new URL() extracts.
Req(name, path, cp, pcts, auto) ==
    [name |-> name,
     entryPath |-> [hostname |-> EntryHost, pathname |-> path],
     controlUrl |-> ControlUrl,
     variants |-> [i \in 1..Len(pcts) |-> [url |-> VariantUrl(i), percentage |-> pcts[i]]],
     controlPercentage |-> cp,
     autoOptimize |-> auto]

ReqStatic2 == Req("A", PathA, Half, <<Quarter, Hundred - Half - Quarter - 1>>, FALSE)
ReqAdaptive == Req("A", PathA, Hundred - Fifth, <<Fifth>>, TRUE)
ReqShort == Req("A", PathA, Half, <<Quarter>>, FALSE)
ReqNoVariant == Req("A", PathA, Hundred, <<>>, FALSE)
ReqB == Req("B A", PathB, Half, <<Hundred - Half>>, FALSE)

ReqBx == Req("B A", PathAx, Half, <<Hundred - Half>>, FALSE)
ReqMoved == Req("A", PathAx, Hundred - Fifth, <<Fifth>>, TRUE)

\* Bodies whose weights do not add up to 100, or are out of range.
ReqOver == Req("A", PathA, Half, <<Half + PctUnit>>, FALSE)
ReqZeroControl == Req("A", PathA, 0, <<Hundred>>, FALSE)

\* A body without the property controlPercentage.
ReqNoControl ==
    LET full == Req("A", PathA, Half, <<Half>>, FALSE)
    IN  [f \in DOMAIN full \ {"controlPercentage"} |-> full[f]]

\* A body that gives the first test the name of the second.
ReqRenamed == Req("B A", PathA, Half, <<Hundred - Half>>, FALSE)

UpdateBodies == {ReqStatic2, ReqAdaptive, ReqShort, ReqNoVariant}
CreateBodies == {ReqStatic2, ReqBx, ReqShort}
MoveBodies == {ReqMoved}

RECURSIVE SumPct(_)
SumPct(vs) == IF vs = <<>> THEN 0 ELSE Head(vs).percentage + SumPct(Tail(vs))

\* A field of a parsed JSON body is undefined when the body does not carry it.
Defined(object, field) == field \in DOMAIN object

\* validateTestConfig: the list of errors is empty.  Names and URLs of the
\* request bodies used here are valid and the variant percentages are
\* numbers; the numeric checks are the ones that can fail.  |total - 100| >
\* 0.01 is compared in units of 1/PctUnit percent.  data is what
\* request.json() returned: when controlPercentage is undefined, the
\* comparisons undefined <= 0 and undefined > 100 are false, the total is NaN
\* and Math.abs(NaN - 100) > 0.01 is false, so that no error is pushed.
validateTestConfig(data) ==
    /\ data.name # ""
    /\ Len(data.variants) # 0
    /\ \A i \in 1..Len(data.variants) :
          ~(data.variants[i].percentage <= 0 \/ data.variants[i].percentage > Hundred)
    /\ ~(/\ Defined(data, "controlPercentage")
         /\ (data.controlPercentage <= 0 \/ data.controlPercentage > Hundred))
    /\ ~(/\ Defined(data, "controlPercentage")
         /\ Abs(data.controlPercentage + SumPct(data.variants) - Hundred) * 100 > PctUnit)

\* slugify, on the names in use.
slugify(name) == IF name = "A" THEN TestA ELSE IF name = "B A" THEN TestB ELSE <<>>

\* loadConfig: the GA4 settings in force.
Settings == [gaMeasurementId |-> "G-TEST", gaPropertyId |-> "123", gaApiSecret |-> "secret"]

\* JSON.stringify leaves out a property whose value is undefined.
Stringified(object, field, defined) ==
    IF defined THEN object ELSE [f \in DOMAIN object \ {field} |-> object[f]]

\* createTestConfig: the stored Test built from a request body; timestamp is
\* Date.now().
createTestConfig(data, timestamp) ==
  Stringified(
    [id |-> slugify(data.name),
     name |-> data.name,
     entryPath |-> data.entryPath.pathname,
     controlUrl |-> data.controlUrl,
     variants |-> [i \in 1..Len(data.variants) |->
                      [id |-> VariantId(i),
                       url |-> data.variants[i].url,
                       percentage |-> data.variants[i].percentage]],
     controlPercentage |-> IF Defined(data, "controlPercentage")
                           THEN data.controlPercentage ELSE 0,
     ga4 |-> [measurementId |-> Settings.gaMeasurementId,
              propertyId |-> Settings.gaPropertyId,
              apiSecret |-> Settings.gaApiSecret],
     eventNames |-> [view |-> slugify(data.name) \o <<"_", "view">>,
                     conversion |-> slugify(data.name) \o <<"_", "conversion">>],
     autoOptimize |-> data.autoOptimize,
     createdAt |-> timestamp],
    "controlPercentage", Defined(data, "controlPercentage"))

\* ['control', ...testConfig.variants.map(v => v.id)]
variantKeys(testConfig) ==
    <<controlId>> \o [i \in 1..Len(testConfig.variants) |-> testConfig.variants[i].id]

BucketIds == {controlId} \cup {VariantId(i) : i \in 1..2}

(***************************************************************************)
(* Static weighted selection                                               *)
(***************************************************************************)
\* The roll Math.random() * 100 lies in [0, 100).  The rolls tried are the
\* ends of the range and the two sides of every threshold in use.
Thresholds == {Quarter, Half, Half + Quarter, Hundred - Fifth, Hundred - 1, Hundred}
Rolls == {r \in {0} \cup {t - 1 : t \in Thresholds} \cup Thresholds : r >= 0 /\ r < Hundred}

RECURSIVE assignLoop(_, _, _, _)
assignLoop(variants, i, cumulativePercentage, roll) ==
    IF i > Len(variants) THEN controlId
    ELSE LET cumulative == cumulativePercentage + variants[i].percentage
         IN  IF roll < cumulative THEN variants[i].id
             ELSE assignLoop(variants, i + 1, cumulative, roll)

M_assignBucket_inclusive(testConfig, roll) ==
    IF "controlPercentage" \notin DOMAIN testConfig THEN controlId
    ELSE IF roll <= testConfig.controlPercentage THEN controlId
    ELSE assignLoop(testConfig.variants, 1, testConfig.controlPercentage, roll)

\* assignBucket of workers/template.ts.  For a stored test without
\* controlPercentage, rand < undefined is false, the cumulative sum is NaN,
\* no rand < NaN holds and the function ends with return 'control'.
assignBucket(testConfig, roll) ==
    IF "controlPercentage" \notin DOMAIN testConfig THEN controlId
    ELSE IF roll < testConfig.controlPercentage THEN controlId
    ELSE assignLoop(testConfig.variants, 1, testConfig.controlPercentage, roll)

\* assignBucket of the generated worker
assignBucketGen(testConfig, roll) ==
    IF "controlPercentage" \notin DOMAIN testConfig THEN controlId
    ELSE LET cumulative == testConfig.controlPercentage
         IN  IF roll < cumulative THEN controlId
             ELSE assignLoop(testConfig.variants, 1, cumulative, roll)

\* getTargetUrl
getTargetUrl(bucket, testConfig) ==
    IF bucket = controlId THEN testConfig.controlUrl
    ELSE LET found == {i \in 1..Len(testConfig.variants) : testConfig.variants[i].id = bucket}
         IN  IF found # {} THEN testConfig.variants[Min(found)].url
             ELSE testConfig.controlUrl

(***************************************************************************)
(* Sampler                                                                 *)
(*                                                                         *)
(* A Gamma variate is one of: exactly zero, a positive number of level m,  *)
(* Infinity, NaN.  A draw for one gammaSample call gives the level of the  *)
(* variate the accept/reject loop returns and the set of recursion depths  *)
(* at which Math.random() returned exactly 0 in the shape < 1 boost.       *)
(***************************************************************************)
Zero == [k |-> "zero", m |-> 0]
Pos(m) == [k |-> "pos", m |-> m]
Inf == [k |-> "inf", m |-> 0]
NaN == [k |-> "nan", m |-> 0]

\* Math.pow(Math.random(), 1 / shape): 0 when the draw is 0 and shape > 0 or
\* when shape = 0 (exponent Infinity, draw < 1); Infinity when the draw is 0
\* and shape < 0; otherwise a positive finite factor.
powRandom(uIsZero, shape) ==
    IF shape = 0 THEN "zero"
    ELSE IF shape > 0 THEN (IF uIsZero THEN "zero" ELSE "finite")
    ELSE (IF uIsZero THEN "inf" ELSE "finite")

\* IEEE product of a variate and such a factor.
Times(v, f) ==
    IF v.k = "nan" THEN NaN
    ELSE IF f = "zero" THEN (IF v.k = "inf" THEN NaN ELSE Zero)
    ELSE IF f = "inf" THEN (IF v.k = "zero" THEN NaN ELSE Inf)
    ELSE v

M_boostShape_stuck(shape) == shape

\* shape + 1 of the recursive call gammaSample(shape + 1, scale)
boostShape(shape) == shape + One

\* gammaSample(shape, 1): for shape < 1 the boosted recursive call times the
\* power of a uniform draw; otherwise the accepted variate d * v * scale,
\* positive because v > 0 and d = shape - 1/3 > 0.
RECURSIVE gammaSample(_, _, _)
gammaSample(shape, draw, depth) ==
    IF shape < One
    THEN Times(gammaSample(boostShape(shape), draw, depth + 1),
               powRandom(depth \in draw.uz, shape))
    ELSE Pos(draw.mag)

\* The shapes of all gammaSample invocations made for one top-level call.
RECURSIVE gammaShapes(_)
gammaShapes(shape) ==
    IF shape < One THEN {shape} \cup gammaShapes(boostShape(shape)) ELSE {shape}

\* A Beta sample: a fraction num/den, or NaN.
Frac(n, d) == [nan |-> FALSE, num |-> n, den |-> d]
NaNSample == [nan |-> TRUE, num |-> 0, den |-> 1]

\* x / (x + y) in IEEE arithmetic
Quotient(x, y) ==
    IF x.k = "nan" \/ y.k = "nan" THEN NaNSample
    ELSE IF x.k = "inf" THEN NaNSample
    ELSE IF y.k = "inf" THEN Frac(0, 1)
    ELSE IF x.k = "zero" THEN (IF y.k = "zero" THEN NaNSample ELSE Frac(0, 1))
    ELSE IF y.k = "zero" THEN Frac(1, 1)
    ELSE Frac(x.m, x.m + y.m)

\* betaSample(alpha, beta): the shapes go to gammaSample as they are.
betaSample(alpha, beta, draw) ==
    Quotient(gammaSample(alpha, draw.x, 1), gammaSample(beta, draw.y, 1))

\* sample > bestScore; false when the sample is NaN
Greater(s, t) == ~s.nan /\ s.num * t.den > t.num * s.den

\* alpha = conversions + 1 and beta = (views - conversions) + 1, as shapes
betaParams(stats, variantId) ==
    LET views == stats.views[variantId]
        conversions == stats.conversions[variantId]
    IN  [alpha |-> (conversions + 1) * ShapeDen,
         beta |-> ((views - conversions) + 1) * ShapeDen]

RECURSIVE chooseLoop(_, _, _, _, _, _)
chooseLoop(stats, keys, draws, i, best, bestScore) ==
    IF i > Len(keys) THEN best
    ELSE LET p == betaParams(stats, keys[i])
             sample == betaSample(p.alpha, p.beta, draws[i])
         IN  IF Greater(sample, bestScore)
             THEN chooseLoop(stats, keys, draws, i + 1, keys[i], sample)
             ELSE chooseLoop(stats, keys, draws, i + 1, best, bestScore)

RECURSIVE M_chooseLoop_lastWins(_, _, _, _, _, _)
M_chooseLoop_lastWins(stats, keys, draws, i, best, bestScore) ==
    IF i > Len(keys) THEN best
    ELSE LET p == betaParams(stats, keys[i])
             sample == betaSample(p.alpha, p.beta, draws[i])
         IN  IF ~Greater(bestScore, sample)
             THEN M_chooseLoop_lastWins(stats, keys, draws, i + 1, keys[i], sample)
             ELSE M_chooseLoop_lastWins(stats, keys, draws, i + 1, best, bestScore)

M_chooseBucketTS_lastWins(stats, keys, draws) ==
    M_chooseLoop_lastWins(stats, keys, draws, 1, controlId, Frac(0 - 1, 1))

M_chooseBucketTS_nullBest(stats, keys, draws) ==
    chooseLoop(stats, keys, draws, 1, <<>>, Frac(0 - 1, 1))

\* chooseBucketTS: best = 'control', bestScore = -1, one Beta sample per key
\* in order, a strictly greater sample replaces the best.
chooseBucketTS(stats, keys, draws) ==
    chooseLoop(stats, keys, draws, 1, controlId, Frac(0 - 1, 1))

\* The samples chooseBucketTS draws, in key order.
samplesOf(stats, keys, draws) ==
    [i \in 1..Len(keys) |->
        LET p == betaParams(stats, keys[i]) IN betaSample(p.alpha, p.beta, draws[i])]

(***************************************************************************)
(* Stats in KV                                                             *)
(***************************************************************************)
Absent == 0 - 1     \* kv.get returned null

\* value ? parseInt(value, 10) : 0
parseOrZero(value) == IF value = Absent THEN 0 ELSE value

\* loadStats: the counters of control and of every variant of the definition.
loadStats(kvStats, testId, variants) ==
    LET ids == {controlId} \cup {variants[i].id : i \in 1..Len(variants)}
    IN  [views |-> [b \in ids |-> parseOrZero(kvStats[testId][b].views)],
         conversions |-> [b \in ids |-> parseOrZero(kvStats[testId][b].conversions)]]

RECURSIVE totalViews(_, _)
totalViews(stats, keys) ==
    IF keys = <<>> THEN 0 ELSE stats.views[Head(keys)] + totalViews(stats, Tail(keys))

(***************************************************************************)
(* State                                                                   *)
(***************************************************************************)
VARIABLES
    kvConfigs,   \* KV test:{id}: <<>> when the key is absent, else <<Test>>
    testsIndex,  \* KV tests_index: <<>> when absent, else <<stored text>>
    kvStats,     \* KV test:{id}:views_{bucket} and test:{id}:conversions_{bucket}
    jar,         \* the browser's cookies for the worker's host: name -> value
    last,        \* the last request handled and its response
    ts,          \* one chooseBucketTS call, statement by statement
    testsList,   \* KV tests:list: the ids the scheduled sync walks through
    sy,          \* one syncTest and one loadStats, KV operation by KV operation
    cr           \* two create requests in flight, KV operation by KV operation

vars == <<kvConfigs, testsIndex, kvStats, jar, last, ts, testsList, sy, cr>>

NoRoll == 0 - 1

\* No chooseBucketTS call is being stepped.
NoCall == [input |-> <<>>, i |-> 0, phase |-> "x", shape |-> 0, stack |-> <<>>,
           pc |-> "idle", rejects |-> 0]

Idle ==
    [op |-> "none", router |-> "none", path |-> <<>>, header |-> <<>>,
     status |-> 0, testId |-> <<>>, existing |-> <<>>, branch |-> "none",
     statsRead |-> FALSE, bucket |-> <<>>, location |-> "", setCookie |-> <<>>,
     roll |-> NoRoll, params |-> <<>>, samples |-> <<>>, shapes |-> {},
     event |-> <<>>, cookies |-> [t \in TestIds |-> <<>>],
     force |-> <<>>, fault |-> "none", kvReads |-> {}, thrown |-> FALSE,
     report |-> <<>>, body |-> <<>>, tests |-> {}, summary |-> <<>>]

\* The text of a KV value that JSON.parse rejects.
Garbled == [garbled |-> TRUE]

\* JSON.parse(text) returns an object.
Parses(value) == "garbled" \notin DOMAIN value

\* The stored tests_index object: its entries in key order.
StoredIndex(entries) == <<[entries |-> entries]>>

\* A stored object without one of its fields.
Without(object, field) == [f \in DOMAIN object \ {field} |-> object[f]]

M_serverError_ok(base) == [base EXCEPT !.status = 200]

\* catch (error) { return new Response('Internal server error', { status: 500 }) }
serverError(base) == [base EXCEPT !.status = 500]

\* The generated worker has no try block: an exception leaves fetch and the
\* Workers runtime answers the request with its own 500 error page.
uncaught(base) == [base EXCEPT !.status = 500, !.thrown = TRUE]

\* How an exception thrown while a request is handled ends the request.
failed(base) == IF base.router = "template" THEN serverError(base) ELSE uncaught(base)

\* sendGA4Event reads testConfig.eventNames.view, testConfig.ga4.measurementId
\* and testConfig.ga4.apiSecret before its try block: a stored test without
\* eventNames or without ga4 makes it throw.
emitThrows(testConfig) == ~({"eventNames", "ga4"} \subseteq DOMAIN testConfig)

\* sendGA4Event(testConfig, bucket, 'view'): the event posted, none without
\* an API secret.
sendGA4Event(testConfig, bucket) ==
    IF testConfig.ga4.apiSecret = "" THEN <<>>
    ELSE <<[name |-> testConfig.eventNames.view, bucket |-> bucket,
            test_id |-> testConfig.id]>>

\* try { await fetch(...) } catch (error) { console.error(...) }: the event
\* the sink received, none when the post fails.
delivered(base, event) == IF base.fault = "ga4" THEN <<>> ELSE event

\* The Beta parameters chooseBucketTS computes, in key order.
paramsOf(stats, keys) == [i \in 1..Len(keys) |-> betaParams(stats, keys[i])]

\* The gammaSample shapes of one chooseBucketTS call.
shapesOf(stats, keys) ==
    UNION {gammaShapes(betaParams(stats, keys[i]).alpha)
             \cup gammaShapes(betaParams(stats, keys[i]).beta) : i \in 1..Len(keys)}

\* if (existingBucket) { ... return Response.redirect(targetUrl, 302) }
redirectExisting(base, testId, testConfig, existingBucket) ==
    IF emitThrows(testConfig) THEN failed(base)
    ELSE [base EXCEPT !.status = 302,
                      !.testId = testId,
                      !.existing = existingBucket,
                      !.bucket = existingBucket,
                      !.location = getTargetUrl(existingBucket, testConfig),
                      !.event = delivered(base, sendGA4Event(testConfig, existingBucket))]

\* Response.redirect(targetUrl, 302) with the Set-Cookie header, after the
\* view event.
redirectFresh(base, testId, testConfig, bucket) ==
    IF emitThrows(testConfig) THEN failed(base)
    ELSE [base EXCEPT !.status = 302,
                      !.testId = testId,
                      !.bucket = bucket,
                      !.location = getTargetUrl(bucket, testConfig),
                      !.setCookie = CookieValue(testConfig.id, bucket),
                      !.event = delivered(base, sendGA4Event(testConfig, bucket))]

\* What a fresh assignment adds to the record of the request.
selected(response, branch, statsRead, roll, stats, keys, draws) ==
    IF response.status # 302 THEN response
    ELSE IF branch = "thompson"
    THEN [response EXCEPT !.branch = branch, !.statsRead = statsRead,
                          !.params = paramsOf(stats, keys),
                          !.samples = samplesOf(stats, keys, draws),
                          !.shapes = shapesOf(stats, keys)]
    ELSE [response EXCEPT !.branch = branch, !.statsRead = statsRead, !.roll = roll]

M_findEntry_default(index, path) ==
    IF index = <<>> THEN <<>> ELSE <<index[1]>>

\* testsIndex[path] || Object.values(testsIndex).find(e => path.startsWith(e.entryPath))
findEntry(index, path) ==
    LET exact == {i \in 1..Len(index) : index[i].path = path}
        prefix == {i \in 1..Len(index) : startsWith(path, index[i].entryPath)}
    IN  IF exact # {} THEN <<index[Min(exact)]>>
        ELSE IF prefix # {} THEN <<index[Min(prefix)]>>
        ELSE <<>>

\* fetch of workers/template.ts.  fault names the awaited operation that
\* rejects in this request: a KV read ("index", "config", "stats") or the
\* post to GA4 ("ga4"); "none" when all succeed.
templateFetch(path, header, roll, draws, fault) ==
    LET base == [Idle EXCEPT !.op = "fetch", !.router = "template",
                             !.path = path, !.header = header,
                             !.fault = fault, !.kvReads = {"index"}]
    IN  IF fault = "index" THEN serverError(base)
        ELSE IF testsIndex = <<>> THEN [base EXCEPT !.status = 404]
        ELSE IF ~Parses(testsIndex[1]) THEN serverError(base)
        ELSE
        LET testEntry == findEntry(testsIndex[1].entries, path)
        IN  IF testEntry = <<>> THEN [base EXCEPT !.status = 404]
            ELSE
            LET read == [base EXCEPT !.kvReads = {"index", "config"},
                                     !.testId = testEntry[1].id]
            IN  IF fault = "config" THEN serverError(read)
            ELSE IF kvConfigs[testEntry[1].id] = <<>> THEN [read EXCEPT !.status = 404]
            ELSE IF ~Parses(kvConfigs[testEntry[1].id][1]) THEN serverError(read)
            ELSE
            LET testConfig == kvConfigs[testEntry[1].id][1]
                existingBucket == getBucket(header, testConfig.id)
                readStats == [read EXCEPT !.kvReads = {"index", "config", "stats"}]
            IN  IF existingBucket # <<>>
                THEN redirectExisting(read, testEntry[1].id, testConfig, existingBucket)
                ELSE IF testConfig.autoOptimize = TRUE
                THEN IF fault = "stats" THEN serverError(readStats)
                     ELSE
                     LET stats == loadStats(kvStats, testConfig.id, testConfig.variants)
                         keys == variantKeys(testConfig)
                     IN  selected(redirectFresh(readStats, testEntry[1].id, testConfig,
                                                chooseBucketTS(stats, keys, draws)),
                                  "thompson", TRUE, roll, stats, keys, draws)
                ELSE selected(redirectFresh(read, testEntry[1].id, testConfig,
                                            assignBucket(testConfig, roll)),
                              "static", FALSE, roll, <<>>, <<>>, draws)

\* fetch of the worker that generateWorkerCode emits for the test workerTest
generatedFetch(workerTest, path, header, roll, draws, fault) ==
    LET base == [Idle EXCEPT !.op = "fetch", !.router = "generated",
                             !.path = path, !.header = header,
                             !.fault = fault, !.kvReads = {"config"},
                             !.testId = workerTest]
    IN  IF fault = "config" THEN uncaught(base)
        ELSE IF kvConfigs[workerTest] = <<>> THEN [base EXCEPT !.status = 404]
        ELSE IF ~Parses(kvConfigs[workerTest][1]) THEN uncaught(base)
        ELSE
        LET testConfig == kvConfigs[workerTest][1]
            existingBucket == getBucket(header, workerTest)
            readStats == [base EXCEPT !.kvReads = {"config", "stats"}]
        IN  IF existingBucket # <<>>
            THEN redirectExisting(base, workerTest, testConfig, existingBucket)
            ELSE IF testConfig.autoOptimize = TRUE
            THEN IF fault = "stats" THEN uncaught(readStats)
                 ELSE
                 LET stats == loadStats(kvStats, testConfig.id, testConfig.variants)
                     keys == variantKeys(testConfig)
                     minViewsRequired == Len(keys) * MinViewsPerBucket
                 IN  IF totalViews(stats, keys) >= minViewsRequired
                     THEN selected(redirectFresh(readStats, workerTest, testConfig,
                                                 chooseBucketTS(stats, keys, draws)),
                                   "thompson", TRUE, roll, stats, keys, draws)
                     ELSE selected(redirectFresh(readStats, workerTest, testConfig,
                                                 assignBucketGen(testConfig, roll)),
                                   "static", TRUE, roll, stats, keys, draws)
            ELSE selected(redirectFresh(base, workerTest, testConfig,
                                        assignBucketGen(testConfig, roll)),
                          "static", FALSE, roll, <<>>, <<>>, draws)

(***************************************************************************)
(* Inputs of a request                                                     *)
(***************************************************************************)
boostDepth(shape) == Cardinality(gammaShapes(shape)) - 1

GammaDraws(shape) ==
    {[mag |-> m, uz |-> z] : m \in 1..MaxMag, z \in SUBSET (1..boostDepth(shape))}

BetaDraws(p) == {[x |-> dx, y |-> dy] : dx \in GammaDraws(p.alpha), dy \in GammaDraws(p.beta)}

RECURSIVE DrawSeqs(_, _)
DrawSeqs(stats, keys) ==
    IF keys = <<>> THEN {<<>>}
    ELSE {<<d>> \o rest : d \in BetaDraws(betaParams(stats, Head(keys))),
                          rest \in DrawSeqs(stats, Tail(keys))}

DefaultDraw == [x |-> [mag |-> 1, uz |-> {}], y |-> [mag |-> 1, uz |-> {}]]
DefaultDraws == <<DefaultDraw, DefaultDraw, DefaultDraw>>

\* The orders in which a client may serialise the cookies it holds.
CookieNames == {n \in TestIds : jar[n] # <<>>}
Orders(S) == {o \in [1..Cardinality(S) -> S] : \A i, j \in 1..Cardinality(S) : i # j => o[i] # o[j]}

\* The draws a planned request consumes: a roll when it takes the static
\* branch, one pair of Gamma draws per bucket when it takes the Thompson one.
RollsFor(plan) == IF plan.branch = "static" THEN Rolls ELSE {NoRoll}
DrawsFor(plan) ==
    IF plan.branch = "thompson"
    THEN LET testConfig == kvConfigs[plan.testId][1]
         IN  DrawSeqs(loadStats(kvStats, testConfig.id, testConfig.variants),
                      variantKeys(testConfig))
    ELSE {DefaultDraws}

\* The awaited operations of a planned request that can reject: the KV reads
\* it performs and the post of its view event.
FaultsFor(plan) ==
    {"none"} \cup plan.kvReads \cup (IF plan.event # <<>> THEN {"ga4"} ELSE {})

\* The value of the __edgesplit_force query parameter of a request URL, <<>>
\* when the URL has no query.
Forces == {<<>>, VariantId(1)}

\* The browser keeps the cookie of a Set-Cookie header.
Store(response) ==
    IF response.setCookie = <<>> THEN jar
    ELSE LET c == ParseSetCookie(response.setCookie)
         IN  [jar EXCEPT ![c.name] = c.value]

(***************************************************************************)
(* Actions                                                                 *)
(***************************************************************************)
\* No syncTest and no loadStats is being stepped.
NoSync == [pc |-> "idle", puts |-> <<>>, rpc |-> "idle", reads |-> <<>>, seen |-> <<>>]

\* Two tests created through POST /api/tests/create, in this order.
InitStore ==
    /\ kvConfigs = [t \in TestIds |->
                      IF t = TestA THEN <<createTestConfig(ReqStatic2, 1)>>
                      ELSE <<createTestConfig(ReqB, 1)>>]
    /\ testsIndex = StoredIndex(<<[path |-> PathA, id |-> TestA, entryPath |-> PathA],
                                  [path |-> PathB, id |-> TestB, entryPath |-> PathB]>>)
    /\ kvStats = [t \in TestIds |-> [b \in BucketIds |-> [views |-> Absent, conversions |-> Absent]]]
    /\ jar = [t \in TestIds |-> <<>>]
    /\ last = Idle
    /\ testsList = <<TestA, TestB>>

\* The handlers of the create requests.
Handlers == {1, 2}

\* No create request is being stepped.
NoCreate ==
    [p \in Handlers |-> [pc |-> "idle", status |-> 0, test |-> <<>>,
                         index |-> <<>>, list |-> <<>>]]

Init == InitStore /\ ts = NoCall /\ sy = NoSync /\ cr = NoCreate

\* The ranges requests are drawn from.  Routing is explored with every roll
\* and every draw of the sampler on requests whose awaited operations all
\* succeed; the life of the store is explored with rejecting operations and
\* the debug query, on the first roll and the default draws.
AllFaults == {"none", "index", "config", "stats", "ga4"}
RoutingInputs ==
    [paths |-> Paths, forces |-> {<<>>}, faults |-> {"none"}, rolls |-> Rolls,
     sampled |-> TRUE]
StoreInputs ==
    [paths |-> Paths \ {PathB}, forces |-> Forces, faults |-> AllFaults,
     rolls |-> {0}, sampled |-> FALSE]

RollsIn(in, plan, fault) ==
    IF fault \in plan.kvReads THEN {NoRoll}
    ELSE RollsFor(plan) \cap (in.rolls \cup {NoRoll})

DrawsIn(in, plan, fault) ==
    IF fault \in plan.kvReads \/ ~in.sampled THEN {DefaultDraws} ELSE DrawsFor(plan)

M_TemplateRequest_countsView(in) ==
    \E path \in in.paths, force \in in.forces, order \in Orders(CookieNames) :
        LET header == CookieHeader(jar, order)
            response == templateFetch(path, header, 0, DefaultDraws, "none")
        IN  /\ last' = [response EXCEPT !.cookies = jar, !.force = force]
            /\ jar' = Store(response)
            /\ kvStats' = IF response.status # 302 THEN kvStats
                          ELSE [kvStats EXCEPT ![response.testId][controlId].views =
                                                   parseOrZero(@) + 1]
            /\ UNCHANGED <<kvConfigs, testsIndex, ts, testsList, sy, cr>>

\* A browser requests a URL from the multi-test worker; fetch keeps
\* url.pathname and never reads the query.
TemplateRequest(in) ==
    \E path \in in.paths, force \in in.forces, order \in Orders(CookieNames) :
        LET header == CookieHeader(jar, order)
            plan == templateFetch(path, header, 0, DefaultDraws, "none")
        IN  \E fault \in FaultsFor(plan) \cap in.faults :
            \E roll \in RollsIn(in, plan, fault), draws \in DrawsIn(in, plan, fault) :
                LET response == templateFetch(path, header, roll, draws, fault)
                IN  /\ last' = [response EXCEPT !.cookies = jar, !.force = force]
                    /\ jar' = Store(response)
                    /\ UNCHANGED <<kvConfigs, testsIndex, kvStats, ts, testsList, sy, cr>>

\* The path of the route a test's generated worker is deployed on.
Route(workerTest) == IF workerTest = TestA THEN PathA ELSE PathB

\* A browser requests the entry URL served by a test's generated worker.
GeneratedRequest(in) ==
    \E workerTest \in TestIds, force \in in.forces, order \in Orders(CookieNames) :
        LET header == CookieHeader(jar, order)
            path == Route(workerTest)
            plan == generatedFetch(workerTest, path, header, 0, DefaultDraws, "none")
        IN  \E fault \in FaultsFor(plan) \cap in.faults :
            \E roll \in RollsIn(in, plan, fault), draws \in DrawsIn(in, plan, fault) :
                LET response == generatedFetch(workerTest, path, header, roll, draws, fault)
                IN  /\ last' = [response EXCEPT !.cookies = jar, !.force = force]
                    /\ jar' = Store(response)
                    /\ UNCHANGED <<kvConfigs, testsIndex, kvStats, ts, testsList, sy, cr>>

\* getTest: the stored test, null when the key is absent or does not parse.
getTest(testId) ==
    IF kvConfigs[testId] # <<>> /\ Parses(kvConfigs[testId][1]) THEN kvConfigs[testId]
    ELSE <<>>

\* The index object updateTestsIndex starts from: {} when the key is absent
\* or corrupted.
IndexObject(stored) ==
    IF stored = <<>> THEN <<>>
    ELSE IF Parses(stored[1]) THEN stored[1].entries ELSE <<>>

M_updateTestsIndex_skip(index, test) == index

\* updateTestsIndex: index[test.entryPath] = { id, entryPath }
updateTestsIndex(index, test) ==
    LET entry == [path |-> test.entryPath, id |-> test.id, entryPath |-> test.entryPath]
        at == {i \in 1..Len(index) : index[i].path = test.entryPath}
    IN  IF at # {} THEN [index EXCEPT ![Min(at)] = entry] ELSE Append(index, entry)

\* { ...object, ...fields }
Spread(object, fields) ==
    [f \in DOMAIN object \cup DOMAIN fields |->
        IF f \in DOMAIN fields THEN fields[f] ELSE object[f]]

M_UpdateTest_rebuilt(testId, data) ==
    /\ validateTestConfig(data)
    /\ getTest(testId) # <<>>
    /\ kvConfigs' = [kvConfigs EXCEPT ![testId] = <<createTestConfig(data, 0)>>]
    /\ testsIndex' = StoredIndex(updateTestsIndex(IndexObject(testsIndex),
                                                   createTestConfig(data, 0)))
    /\ last' = [Idle EXCEPT !.op = "update", !.status = 200,
                            !.testId = testId, !.body = data]
    /\ UNCHANGED <<kvStats, jar, ts, testsList, sy, cr>>

\* PUT /api/tests/[testId]/update
UpdateTest(testId, data) ==
    /\ IF ~validateTestConfig(data)
       THEN /\ last' = [Idle EXCEPT !.op = "update", !.status = 400, !.body = data]
            /\ UNCHANGED <<kvConfigs, testsIndex>>
       ELSE IF getTest(testId) = <<>>
       THEN /\ last' = [Idle EXCEPT !.op = "update", !.status = 404, !.body = data]
            /\ UNCHANGED <<kvConfigs, testsIndex>>
       ELSE LET existingTest == getTest(testId)[1]
                fresh == createTestConfig(data, 0)
                updatedTest ==
                    Stringified(
                        Spread(existingTest,
                               [name |-> data.name,
                                entryPath |-> data.entryPath.pathname,
                                controlUrl |-> data.controlUrl,
                                variants |-> fresh.variants,
                                controlPercentage |->
                                    IF Defined(data, "controlPercentage")
                                    THEN data.controlPercentage ELSE 0,
                                ga4 |-> fresh.ga4,
                                autoOptimize |-> data.autoOptimize]),
                        "controlPercentage", Defined(data, "controlPercentage"))
            IN  /\ kvConfigs' = [kvConfigs EXCEPT ![testId] = <<updatedTest>>]
                /\ testsIndex' = StoredIndex(updateTestsIndex(IndexObject(testsIndex),
                                                               updatedTest))
                /\ last' = [Idle EXCEPT !.op = "update", !.status = 200,
                                        !.testId = testId, !.body = data]
    /\ UNCHANGED <<kvStats, jar, ts, testsList, sy, cr>>

\* addTestToList: the id is appended unless the list holds it.
addTestToList(list, testId) ==
    IF \E i \in 1..Len(list) : list[i] = testId THEN list ELSE Append(list, testId)

\* removeTestFromList: testIds.filter(id => id !== testId)
removeTestFromList(list, testId) == SelectSeq(list, LAMBDA id : id # testId)

\* POST /api/tests/create
CreateTest(data, timestamp) ==
    /\ IF ~validateTestConfig(data)
       THEN /\ last' = [Idle EXCEPT !.op = "create", !.status = 400, !.body = data]
            /\ UNCHANGED <<kvConfigs, testsIndex, testsList>>
       ELSE IF getTest(slugify(data.name)) # <<>>
       THEN /\ last' = [Idle EXCEPT !.op = "create", !.status = 409, !.body = data]
            /\ UNCHANGED <<kvConfigs, testsIndex, testsList>>
       ELSE LET test == createTestConfig(data, timestamp)
            IN  /\ kvConfigs' = [kvConfigs EXCEPT ![test.id] = <<test>>]
                /\ testsIndex' = StoredIndex(updateTestsIndex(IndexObject(testsIndex), test))
                /\ testsList' = addTestToList(testsList, test.id)
                /\ last' = [Idle EXCEPT !.op = "create", !.status = 200,
                                        !.testId = test.id, !.body = data]
    /\ UNCHANGED <<kvStats, jar, ts, sy, cr>>

\* removeFromTestsIndex: the first key whose entry has the id is deleted and
\* the object is put back; nothing is written when the key tests_index is
\* absent or corrupted, or when no entry has the id.
removeFromTestsIndex(stored, testId) ==
    IF stored = <<>> THEN stored
    ELSE IF ~Parses(stored[1]) THEN stored
    ELSE LET index == stored[1].entries
             found == {i \in 1..Len(index) : index[i].id = testId}
         IN  IF found = {} THEN stored
             ELSE StoredIndex(SubSeq(index, 1, Min(found) - 1)
                                \o SubSeq(index, Min(found) + 1, Len(index)))

\* DELETE /api/tests/[testId]
DeleteTest(testId) ==
    /\ kvConfigs' = [kvConfigs EXCEPT ![testId] = <<>>]
    /\ testsIndex' = removeFromTestsIndex(testsIndex, testId)
    /\ testsList' = removeTestFromList(testsList, testId)
    /\ last' = [Idle EXCEPT !.op = "delete", !.status = 200, !.testId = testId]
    /\ UNCHANGED <<kvStats, jar, ts, sy, cr>>

\* Values an operator stores by hand, as the setup instructions describe
\* (wrangler kv:key put "test:{id}" '<json>'; tests_index: "Edit the JSON and
\* put it back"): text that is not JSON, and a test written without its
\* eventNames or without an API secret.
HandWrittenTests ==
    {Garbled,
     Without(createTestConfig(ReqStatic2, 1), "eventNames"),
     [createTestConfig(ReqStatic2, 1) EXCEPT !.ga4.apiSecret = ""]}

OperatorPutTest(testId, value) ==
    /\ kvConfigs' = [kvConfigs EXCEPT ![testId] = <<value>>]
    /\ last' = [Idle EXCEPT !.op = "put"]
    /\ UNCHANGED <<testsIndex, kvStats, jar, ts, testsList, sy, cr>>

OperatorPutIndex(value) ==
    /\ testsIndex' = <<value>>
    /\ last' = [Idle EXCEPT !.op = "put"]
    /\ UNCHANGED <<kvConfigs, kvStats, jar, ts, testsList, sy, cr>>

\* Counts a GA4 report can hold, per bucket: views and conversions.
Snapshot(cv, cc, v1v, v1c, v2v, v2c) ==
    [b \in BucketIds |->
        IF b = controlId THEN [views |-> cv, conversions |-> cc]
        ELSE IF b = VariantId(1) THEN [views |-> v1v, conversions |-> v1c]
        ELSE [views |-> v2v, conversions |-> v2c]]

SnapCold == Snapshot(50, 5, 40, 10, 30, 3)
SnapWarm == Snapshot(1000, 100, 1000, 500, 1000, 300)
SnapCorrupt == Snapshot(150, 10, 100, 102, 0, 0)
SnapBroken == Snapshot(100, 102, 100, 102, 0, 0)
Snapshots == {SnapCold, SnapWarm, SnapCorrupt, SnapBroken}

\* A report with rows for control only.
SnapPartial == [b \in {controlId} |-> [views |-> 300, conversions |-> 30]]
Reports == Snapshots \cup {SnapPartial}

\* queryGA4Stats: the counters start at 0 for control and every variant of
\* the test, and the rows of the report are added to them.
queryGA4Stats(test, report) ==
    LET ids == {controlId} \cup {test.variants[i].id : i \in 1..Len(test.variants)}
    IN  [b \in ids \cup DOMAIN report |->
            IF b \in DOMAIN report THEN report[b] ELSE [views |-> 0, conversions |-> 0]]

M_updateKVStats_accumulate(stored, test, stats) ==
    LET ids == {controlId} \cup {test.variants[i].id : i \in 1..Len(test.variants)}
    IN  [b \in BucketIds |->
            IF b \in ids
            THEN [views |-> parseOrZero(stored[b].views) + stats[b].views,
                  conversions |-> parseOrZero(stored[b].conversions) + stats[b].conversions]
            ELSE stored[b]]

\* updateKVStats: the counters of control and of every variant of the test
\* are overwritten with the counts of the report.
updateKVStats(stored, test, stats) ==
    LET ids == {controlId} \cup {test.variants[i].id : i \in 1..Len(test.variants)}
    IN  [b \in BucketIds |-> IF b \in ids THEN stats[b] ELSE stored[b]]

\* syncTest: report is <<>> when the GA4 query fails.
SyncTest(testId, report) ==
    /\ IF kvConfigs[testId] = <<>> \/ report = <<>>
       THEN /\ last' = [Idle EXCEPT !.op = "sync", !.status = 500,
                                    !.fault = IF report = <<>> THEN "ga4" ELSE "none"]
            /\ UNCHANGED kvStats
       ELSE IF ~Parses(kvConfigs[testId][1])
       THEN /\ last' = [Idle EXCEPT !.op = "sync", !.status = 500]
            /\ UNCHANGED kvStats
       ELSE LET test == kvConfigs[testId][1]
            IN  /\ kvStats' = [kvStats EXCEPT
                                 ![testId] = updateKVStats(@, test,
                                                           queryGA4Stats(test, report[1]))]
                /\ last' = [Idle EXCEPT !.op = "sync", !.status = 200,
                                        !.testId = testId, !.report = report]
    /\ UNCHANGED <<kvConfigs, testsIndex, jar, ts, testsList, sy, cr>>

\* fetchGA4Stats: the counts of parseGA4Data for control and every variant of
\* the test, rows of other buckets dropped; when the token exchange or the
\* query fails (report <<>>) the catch block returns createEmptyStats(test).
fetchGA4Stats(test, report) ==
    LET ids == {controlId} \cup {test.variants[i].id : i \in 1..Len(test.variants)}
    IN  [b \in ids |->
            IF report # <<>> /\ b \in DOMAIN report[1] THEN report[1][b]
            ELSE [views |-> 0, conversions |-> 0]]

\* POST /api/sync/[testId]: the counters of control and of every variant are
\* put from the stats fetchGA4Stats returned.
SyncOne(testId, report) ==
    /\ IF getTest(testId) = <<>>
       THEN /\ last' = [Idle EXCEPT !.op = "syncOne", !.status = 404]
            /\ UNCHANGED kvStats
       ELSE IF ~getTest(testId)[1].autoOptimize
       THEN /\ last' = [Idle EXCEPT !.op = "syncOne", !.status = 200]
            /\ UNCHANGED kvStats
       ELSE LET test == getTest(testId)[1]
                stats == fetchGA4Stats(test, report)
            IN  /\ kvStats' = [kvStats EXCEPT
                                 ![testId] = [b \in BucketIds |->
                                                IF b \in DOMAIN stats THEN stats[b] ELSE @[b]]]
                /\ last' = [Idle EXCEPT !.op = "syncOne", !.status = 200,
                                        !.testId = testId, !.report = report,
                                        !.fault = IF report = <<>> THEN "ga4" ELSE "none"]
    /\ UNCHANGED <<kvConfigs, testsIndex, jar, ts, testsList, sy, cr>>

\* A cookie reaches its Max-Age and the browser drops it.
ExpireCookie(name) ==
    /\ jar[name] # <<>>
    /\ jar' = [jar EXCEPT ![name] = <<>>]
    /\ last' = Idle
    /\ UNCHANGED <<kvConfigs, testsIndex, kvStats, ts, testsList, sy, cr>>

Next ==
    \/ TemplateRequest(RoutingInputs)
    \/ GeneratedRequest(RoutingInputs)
    \/ \E data \in UpdateBodies : UpdateTest(TestA, data)
    \/ \E report \in {<<>>} \cup {<<s>> : s \in Reports} : SyncTest(TestA, report)
    \/ \E report \in {<<>>, <<SnapWarm>>} : SyncOne(TestA, report)
    \/ \E name \in TestIds : ExpireCookie(name)

Spec == Init /\ [][Next]_vars

\* A KV namespace that was just created holds no key.
InitFresh ==
    /\ kvConfigs = [t \in TestIds |-> <<>>]
    /\ testsIndex = <<>>
    /\ kvStats = [t \in TestIds |-> [b \in BucketIds |-> [views |-> Absent, conversions |-> Absent]]]
    /\ jar = [t \in TestIds |-> <<>>]
    /\ last = Idle
    /\ testsList = <<>>
    /\ ts = NoCall
    /\ sy = NoSync
    /\ cr = NoCreate

NextStore ==
    \/ \E data \in CreateBodies : CreateTest(data, 1)
    \/ \E data \in MoveBodies : UpdateTest(TestA, data)
    \/ \E testId \in TestIds : DeleteTest(testId)
    \/ \E value \in HandWrittenTests : OperatorPutTest(TestA, value)
    \/ OperatorPutIndex(Garbled)
    \/ TemplateRequest(StoreInputs)
    \/ GeneratedRequest(StoreInputs)

SpecStore == InitFresh /\ [][NextStore]_vars

(***************************************************************************)
(* Properties of the routers                                               *)
(***************************************************************************)
\* The last action was a request that resolved a test and was redirected;
\* KV is as the request read it.
Redirected == last.op = "fetch" /\ last.status = 302
Fresh == Redirected /\ last.branch # "none"
ServedConfig == kvConfigs[last.testId][1]
ServedStats == loadStats(kvStats, ServedConfig.id, ServedConfig.variants)
KnownBuckets(testConfig) ==
    {controlId} \cup {testConfig.variants[i].id : i \in 1..Len(testConfig.variants)}

\* C1 (sticky binding): a request that carries a cookie binding the resolved
\* test to bucket b is resolved to b, with no bucket selection and no stats
\* read, whatever the definition and the stats are.
C1_StickyBinding ==
    (Redirected /\ last.cookies[last.testId] # <<>>) =>
        /\ last.bucket = last.cookies[last.testId]
        /\ last.location = getTargetUrl(last.cookies[last.testId], ServedConfig)
        /\ last.branch = "none"
        /\ ~last.statsRead

\* C2 (binding exactly once): a response carries Set-Cookie if and only if
\* the request had no binding for the resolved test and ended in a redirect.
C2_BindOnce ==
    last.op = "fetch" =>
        /\ last.status # 302 => last.setCookie = <<>>
        /\ last.status = 302 =>
              (last.setCookie # <<>> <=> last.cookies[last.testId] = <<>>)

\* C3 (round trip): for every cookie t=b that bind wrote and the browser
\* holds, getBucket on a Cookie header containing the pair, alone or among
\* the other cookies and in any order, returns b.
C3_RoundTrip ==
    \A t \in CookieNames : \A order \in Orders(CookieNames) :
        getBucket(CookieHeader(jar, order), t) = jar[t]

C5_ExplorationFloor ==
    (Fresh /\ ServedConfig.autoOptimize) =>
        LET keys == variantKeys(ServedConfig)
        IN  /\ totalViews(ServedStats, keys) < Len(keys) * 100 => last.branch = "static"
            /\ last.branch = "thompson" => totalViews(ServedStats, keys) >= Len(keys) * 100

\* The cumulative threshold of variant i: the control percentage plus the
\* percentages of the variants up to and including i.
Threshold(testConfig, i) ==
    testConfig.controlPercentage + SumPct(SubSeq(testConfig.variants, 1, i))

\* C6 (static weighted selection): control when roll < controlPercentage,
\* else the first variant whose cumulative threshold is above the roll, else
\* control; when the weights sum to 100 every bucket is returned exactly for
\* the rolls of its own interval.
C6_StaticSelection ==
    (Fresh /\ last.branch = "static") =>
        LET c == ServedConfig
            n == Len(c.variants)
            above == {i \in 1..n : Threshold(c, i) > last.roll}
        IN  /\ last.roll < c.controlPercentage => last.bucket = controlId
            /\ (last.roll >= c.controlPercentage /\ above # {}) =>
                  last.bucket = c.variants[Min(above)].id
            /\ (last.roll >= c.controlPercentage /\ above = {}) => last.bucket = controlId
            /\ Threshold(c, n) = Hundred =>
                  /\ last.bucket = controlId <=> last.roll < c.controlPercentage
                  /\ \A i \in 1..n :
                        last.bucket = c.variants[i].id <=>
                            (Threshold(c, i - 1) <= last.roll /\ last.roll < Threshold(c, i))

W6_Fallback ==
    /\ Fresh
    /\ last.branch = "static"
    /\ last.roll >= Threshold(ServedConfig, Len(ServedConfig.variants))
    /\ last.bucket = controlId

\* C7 (Thompson selection): one sample per bucket, in the order control,
\* variant1, ..., drawn with alpha = conversions + 1 and beta = (views -
\* conversions) + 1; the bucket returned is the earliest one whose sample no
\* other sample exceeds (control when no sample is a number).
C7_ThompsonSelection ==
    (Fresh /\ last.branch = "thompson") =>
        LET keys == variantKeys(ServedConfig)
            numeric == {i \in 1..Len(keys) : ~last.samples[i].nan}
            top == {i \in numeric : \A j \in numeric :
                       last.samples[i].num * last.samples[j].den
                         >= last.samples[j].num * last.samples[i].den}
        IN  /\ Len(last.samples) = Len(keys)
            /\ \A i \in 1..Len(keys) :
                  /\ last.params[i].alpha = (ServedStats.conversions[keys[i]] + 1) * ShapeDen
                  /\ last.params[i].beta =
                        ((ServedStats.views[keys[i]] - ServedStats.conversions[keys[i]]) + 1)
                          * ShapeDen
            /\ last.bucket = IF numeric = {} THEN controlId ELSE keys[Min(top)]

W7_TieKeepsEarlier ==
    /\ Fresh
    /\ last.branch = "thompson"
    /\ last.samples[1] = last.samples[2]
    /\ ~last.samples[1].nan
    /\ last.bucket = controlId

C9_ShapesClamped ==
    (Fresh /\ last.branch = "thompson") => \A shape \in last.shapes : shape > 0

(***************************************************************************)
(* chooseBucketTS, betaSample and gammaSample statement by statement       *)
(*                                                                         *)
(* ts.input holds the Beta parameters of the buckets, ts.i the bucket of   *)
(* the loop of chooseBucketTS, ts.phase the gammaSample call of betaSample *)
(* in progress (x or y), ts.shape its shape, ts.stack the shapes of the    *)
(* pending recursive callers.  A draw is given by what it decides.         *)
(***************************************************************************)
Shapes == {0 - ShapeDen, 0, 1, ShapeDen, ShapeDen + 1}

TsInputs ==
    {<<[alpha |-> a, beta |-> b]>> : a \in Shapes, b \in Shapes}
      \cup {<<[alpha |-> One, beta |-> b1], [alpha |-> a2, beta |-> One]>> :
               b1 \in Shapes, a2 \in Shapes}

Bump(n) == IF n < MaxRejects THEN n + 1 ELSE n

InitTS ==
    /\ InitStore
    /\ sy = NoSync
    /\ cr = NoCreate
    /\ \E input \in TsInputs :
          ts = [input |-> input, i |-> 1, phase |-> "x", shape |-> input[1].alpha,
                stack |-> <<>>, pc |-> "enter", rejects |-> 0]

\* if (shape < 1) return gammaSample(shape + 1, scale) * ...: the recursive call
GammaBoost ==
    /\ ts.pc = "enter"
    /\ ts.shape < One
    /\ Len(ts.stack) < MaxDepth
    /\ ts' = [ts EXCEPT !.stack = Append(@, ts.shape), !.shape = boostShape(ts.shape)]
    /\ UNCHANGED <<kvConfigs, testsIndex, kvStats, jar, last, testsList, sy, cr>>

\* shape >= 1: d and c are computed and the while (true) loop is entered
GammaLoop ==
    /\ ts.pc = "enter"
    /\ ~(ts.shape < One)
    /\ ts' = [ts EXCEPT !.pc = "normal"]
    /\ UNCHANGED <<kvConfigs, testsIndex, kvStats, jar, last, testsList, sy, cr>>

\* do { x = normalSample(); v = 1 + c * x } while (v <= 0)
DrawNormal(vPositive) ==
    /\ ts.pc = "normal"
    /\ ts' = IF vPositive THEN [ts EXCEPT !.pc = "uniform"]
             ELSE [ts EXCEPT !.rejects = Bump(@)]
    /\ UNCHANGED <<kvConfigs, testsIndex, kvStats, jar, last, testsList, sy, cr>>

\* u = Math.random(); the squeeze test, then the logarithmic test, accept and
\* return d * v * scale; otherwise the loop goes round.
DrawUniform(outcome) ==
    /\ ts.pc = "uniform"
    /\ ts' = IF outcome \in {"squeeze", "log"} THEN [ts EXCEPT !.pc = "return"]
             ELSE [ts EXCEPT !.pc = "normal", !.rejects = Bump(@)]
    /\ UNCHANGED <<kvConfigs, testsIndex, kvStats, jar, last, testsList, sy, cr>>

\* A gammaSample call returns: to its recursive caller, which multiplies by
\* Math.pow(Math.random(), 1 / shape) and returns in turn; to betaSample,
\* which calls gammaSample(beta, 1) after gammaSample(alpha, 1) and returns
\* x / (x + y) to the loop of chooseBucketTS, which goes to the next key or
\* returns best.
GammaReturn ==
    /\ ts.pc = "return"
    /\ ts' = IF ts.stack # <<>>
             THEN [ts EXCEPT !.stack = SubSeq(@, 1, Len(@) - 1)]
             ELSE IF ts.phase = "x"
             THEN [ts EXCEPT !.phase = "y", !.shape = ts.input[ts.i].beta, !.pc = "enter"]
             ELSE IF ts.i < Len(ts.input)
             THEN [ts EXCEPT !.i = @ + 1, !.phase = "x",
                             !.shape = ts.input[ts.i + 1].alpha, !.pc = "enter"]
             ELSE [ts EXCEPT !.pc = "done"]
    /\ UNCHANGED <<kvConfigs, testsIndex, kvStats, jar, last, testsList, sy, cr>>

NextTS ==
    \/ GammaBoost
    \/ GammaLoop
    \/ \E vPositive \in BOOLEAN : DrawNormal(vPositive)
    \/ \E outcome \in {"squeeze", "log", "reject"} : DrawUniform(outcome)
    \/ GammaReturn

\* The statements are executed, and the random source is fair: a draw that
\* is accepted, which has positive probability at every visit, is not
\* avoided forever.
SpecTS ==
    /\ InitTS
    /\ [][NextTS]_vars
    /\ WF_vars(GammaBoost)
    /\ WF_vars(GammaLoop)
    /\ WF_vars(GammaReturn)
    /\ SF_vars(DrawNormal(TRUE))
    /\ SF_vars(\E outcome \in {"squeeze", "log"} : DrawUniform(outcome))

PrefixEntries(path) ==
    LET index == IndexObject(testsIndex)
    IN  {i \in 1..Len(index) : startsWith(path, index[i].entryPath)}

\* No active test matches the request that is being answered by last':
\* for the multi-test worker there is no tests_index, no entry whose path
\* is a prefix of the request path, or no configuration under the id of the
\* matched entry; for a generated worker there is no configuration of its test.
NoActiveTest ==
    IF last'.router = "template"
    THEN \/ testsIndex = <<>>
         \/ Parses(testsIndex[1]) /\ PrefixEntries(last'.path) = {}
         \/ last'.testId # <<>> /\ kvConfigs[last'.testId] = <<>>
    ELSE kvConfigs[last'.testId] = <<>>

\* C11 (unknown path): a request whose path matches no active test, and
\* whose KV reads succeed, ends with HTTP 404 and has no side effect: no
\* Set-Cookie, no stats read, no analytics event, no KV write, and the
\* browser's cookies stay as they were.
C11_UnknownPath ==
    [][(last'.op = "fetch" /\ last'.fault = "none" /\ NoActiveTest) =>
          /\ last'.status = 404
          /\ last'.setCookie = <<>>
          /\ ~last'.statsRead /\ "stats" \notin last'.kvReads
          /\ last'.event = <<>>
          /\ UNCHANGED <<kvConfigs, testsIndex, kvStats, testsList, jar>>]_vars

\* An index entry outlived its test and a request matched it.
W11_StaleEntry ==
    /\ last.op = "fetch" /\ last.router = "template" /\ last.status = 404
    /\ last.kvReads = {"index", "config"}
    /\ kvConfigs[last.testId] = <<>>

\* C12 (longest prefix): when several registered entry paths are prefixes
\* of the request path, the multi-test worker resolves the test of the
\* longest one, whatever the order of the entries in tests_index.
C12_LongestPrefix ==
    (last.op = "fetch" /\ last.router = "template" /\ last.status = 302) =>
        LET index == IndexObject(testsIndex)
        IN  \A i \in PrefixEntries(last.path) :
               (\A j \in PrefixEntries(last.path) :
                   Len(index[j].entryPath) <= Len(index[i].entryPath))
               => last.testId = index[i].id

\* C13 (stale binding): a request whose cookie binds the resolved test to
\* a bucket id is redirected with 302: to the controlUrl when the id is
\* "control" or is no variant of the current definition, to the variant's
\* url when it is one.
C13_StaleBinding ==
    \A t \in TestIds :
        (last.op = "fetch" /\ last.fault = "none" /\ last.testId = t
           /\ last.cookies[t] # <<>> /\ getTest(t) # <<>>) =>
            LET testConfig == getTest(t)[1]
                bound == last.cookies[t]
                known == {i \in 1..Len(testConfig.variants) :
                             testConfig.variants[i].id = bound}
            IN  /\ last.status = 302
                /\ last.location =
                      IF bound = controlId \/ known = {} THEN testConfig.controlUrl
                      ELSE testConfig.variants[Min(known)].url

\* The test the last request resolved has a configuration that parses.
ResolvedTest ==
    /\ last.op = "fetch"
    /\ last.testId # <<>>
    /\ getTest(last.testId) # <<>>

\* C14 (analytics never fails the redirect): a resolved request whose KV
\* reads succeed is answered with the 302 redirect to the target of its
\* bucket, with the cookie when the request had no binding, whatever
\* happens while the view event is emitted: a failing post, no API secret,
\* a stored configuration without ga4 or eventNames.
C14_EmissionNeverFails ==
    (ResolvedTest /\ last.fault \in {"none", "ga4"}) =>
        /\ last.status = 302
        /\ last.location = getTargetUrl(last.bucket, getTest(last.testId)[1])
        /\ last.existing = <<>> => last.setCookie # <<>>

\* C15 (stats unavailable): a fresh request for an adaptive test is
\* answered with a 302 redirect when a counter is absent and when the read
\* of the counters fails; the stats of a bucket without a counter are 0, 0.
C15_StatsUnavailableDegrades ==
    (/\ ResolvedTest
     /\ last.fault \in {"none", "stats"}
     /\ getTest(last.testId)[1].autoOptimize
     /\ ~emitThrows(getTest(last.testId)[1])
     /\ getBucket(last.header, last.testId) = <<>>) =>
        /\ last.status = 302
        /\ last.branch = "thompson" =>
              \A i \in 1..Len(last.params) :
                 LET counters == kvStats[last.testId][variantKeys(ServedConfig)[i]]
                 IN  (counters.views = Absent /\ counters.conversions = Absent)
                        => last.params[i] = [alpha |-> One, beta |-> One]

\* C16 (debug override): a redirected request whose URL carries the debug
\* query parameter naming a bucket is resolved to that bucket, the cookie
\* binds that bucket and the view event reports it.
C16_DebugOverride ==
    (last.op = "fetch" /\ last.status = 302 /\ last.force # <<>>) =>
        /\ last.bucket = last.force
        /\ last.location = getTargetUrl(last.force, ServedConfig)
        /\ last.setCookie = CookieValue(last.testId, last.force)
        /\ (last.fault = "none" /\ ServedConfig.ga4.apiSecret # "") =>
              (last.event # <<>> /\ last.event[1].bucket = last.force)

\* A failure of the request that is not one of the degradable ones: a KV
\* read of the index or of the configuration rejects, or the text read does
\* not parse.
UnexpectedFailure ==
    \/ last.fault \in {"index", "config"}
    \/ last.router = "template" /\ testsIndex # <<>> /\ ~Parses(testsIndex[1])
    \/ /\ last.testId # <<>>
       /\ kvConfigs[last.testId] # <<>>
       /\ ~Parses(kvConfigs[last.testId][1])

C18_RouterReadOnly ==
    [][last'.op = "fetch" =>
          UNCHANGED <<kvConfigs, testsIndex, kvStats, testsList>>]_vars

W18_AdaptiveRequestServed ==
    /\ last.op = "fetch" /\ last.status = 302
    /\ last.branch = "thompson" /\ last.statsRead
    /\ last.setCookie # <<>>

\* C19 (sync overwrites): after a successful syncTest the stored counters
\* of control and of every variant of the test are the counts of the report
\* just fetched, 0 for a bucket without rows, whatever was stored before;
\* writing the same report again leaves the counters as they are.
C19_SyncOverwrites ==
    (last.op = "sync" /\ last.status = 200) =>
        LET test == kvConfigs[last.testId][1]
            report == last.report[1]
        IN  /\ \A b \in KnownBuckets(test) :
                  kvStats[last.testId][b] =
                     IF b \in DOMAIN report THEN report[b]
                     ELSE [views |-> 0, conversions |-> 0]
            /\ updateKVStats(kvStats[last.testId], test, queryGA4Stats(test, report))
                  = kvStats[last.testId]

\* A report without rows for variant1 was stored over earlier counters,
\* while the counters of a bucket that is no longer a variant kept theirs.
W19_PartialReportStored ==
    /\ last.op = "sync" /\ last.status = 200
    /\ last.report = <<SnapPartial>>
    /\ kvStats[TestA][controlId] = SnapPartial[controlId]
    /\ kvStats[TestA][VariantId(1)] = [views |-> 0, conversions |-> 0]
    /\ kvStats[TestA][VariantId(2)].views > 0

(***************************************************************************)
(* syncTest and loadStats, one KV operation at a time                      *)
(*                                                                         *)
(* updateKVStats awaits one kv.put per counter and loadStats one kv.get    *)
(* per counter, so the operations of a sync and of a request interleave;   *)
(* a kv.put that rejects ends syncTest in its catch block with the         *)
(* remaining counters unwritten.                                           *)
(***************************************************************************)
\* The counter keys of a test in the order updateKVStats and loadStats walk
\* them: views and conversions of control, then of each variant.
RECURSIVE CounterKeys(_)
CounterKeys(keys) ==
    IF keys = <<>> THEN <<>>
    ELSE <<[bucket |-> Head(keys), field |-> "views"],
           [bucket |-> Head(keys), field |-> "conversions"]>> \o CounterKeys(Tail(keys))

\* The reports the stepped sync fetches: in each, conversions <= views.
SyncReports == {SnapCold, SnapWarm}

\* syncTest up to the first kv.put: the configuration is read, GA4 is
\* queried, and the puts of updateKVStats are lined up.
SyncBegin(report) ==
    /\ sy.pc # "putting"
    /\ getTest(TestA) # <<>>
    /\ LET test == getTest(TestA)[1]
           stats == queryGA4Stats(test, report)
           keys == CounterKeys(variantKeys(test))
       IN  sy' = [sy EXCEPT !.pc = "putting",
                            !.puts = [i \in 1..Len(keys) |->
                                        [bucket |-> keys[i].bucket, field |-> keys[i].field,
                                         value |-> IF keys[i].field = "views"
                                                   THEN stats[keys[i].bucket].views
                                                   ELSE stats[keys[i].bucket].conversions]]]
    /\ UNCHANGED <<kvConfigs, testsIndex, kvStats, jar, last, ts, testsList, cr>>

\* One await kv.put(...) of updateKVStats.
SyncPut ==
    /\ sy.pc = "putting"
    /\ LET put == Head(sy.puts)
       IN  kvStats' = IF put.field = "views"
                      THEN [kvStats EXCEPT ![TestA][put.bucket].views = put.value]
                      ELSE [kvStats EXCEPT ![TestA][put.bucket].conversions = put.value]
    /\ sy' = [sy EXCEPT !.puts = Tail(@),
                        !.pc = IF Len(sy.puts) = 1 THEN "done" ELSE "putting"]
    /\ UNCHANGED <<kvConfigs, testsIndex, jar, last, ts, testsList, cr>>

\* A kv.put rejects, or the process ends: catch (error) { result.error = ... }
SyncCrash ==
    /\ sy.pc = "putting"
    /\ sy' = [sy EXCEPT !.pc = "crashed", !.puts = <<>>]
    /\ UNCHANGED <<kvConfigs, testsIndex, kvStats, jar, last, ts, testsList, cr>>

\* A router starts loadStats for a fresh request on the adaptive test.
LoadBegin ==
    /\ sy.rpc # "reading"
    /\ getTest(TestA) # <<>>
    /\ getTest(TestA)[1].autoOptimize
    /\ sy' = [sy EXCEPT !.rpc = "reading",
                        !.reads = CounterKeys(variantKeys(getTest(TestA)[1])),
                        !.seen = <<>>]
    /\ UNCHANGED <<kvConfigs, testsIndex, kvStats, jar, last, ts, testsList, cr>>

\* One await env.AB_TESTS.get(...) of loadStats.
LoadGet ==
    /\ sy.rpc = "reading"
    /\ LET key == Head(sy.reads)
           stored == kvStats[TestA][key.bucket]
           value == parseOrZero(IF key.field = "views" THEN stored.views
                                ELSE stored.conversions)
       IN  sy' = [sy EXCEPT !.seen = Append(@, [bucket |-> key.bucket,
                                                field |-> key.field, value |-> value]),
                            !.reads = Tail(@),
                            !.rpc = IF Len(sy.reads) = 1 THEN "done" ELSE "reading"]
    /\ UNCHANGED <<kvConfigs, testsIndex, kvStats, jar, last, ts, testsList, cr>>

NextSync ==
    \/ \E report \in SyncReports : SyncBegin(report)
    \/ SyncPut
    \/ SyncCrash
    \/ LoadBegin
    \/ LoadGet
    \/ \E data \in {ReqStatic2, ReqAdaptive} : UpdateTest(TestA, data)

SpecSync == Init /\ [][NextSync]_vars

\* The counts a store holds before its first sync: every counter reads 0.
NoSnapshot == [b \in BucketIds |-> [views |-> 0, conversions |-> 0]]

\* The stored counters of the buckets of the test are those of one report.
StoredFromOneSnapshot ==
    \E s \in SyncReports \cup {NoSnapshot} :
        \A b \in KnownBuckets(getTest(TestA)[1]) :
            /\ parseOrZero(kvStats[TestA][b].views) = s[b].views
            /\ parseOrZero(kvStats[TestA][b].conversions) = s[b].conversions

\* The counters one loadStats returned are those of one report.
SeenFromOneSnapshot ==
    \E s \in SyncReports \cup {NoSnapshot} :
        \A i \in 1..Len(sy.seen) :
            sy.seen[i].value = IF sy.seen[i].field = "views" THEN s[sy.seen[i].bucket].views
                               ELSE s[sy.seen[i].bucket].conversions

\* C20 (snapshot consistency): when a sync ended, completed or crashed, the
\* stored counters of all buckets of the test come from one report; the
\* counters a router read, also while a sync was in progress, come from one
\* report; and no bucket is stored or read with more conversions than views.
C20_SnapshotConsistency ==
    /\ sy.pc \in {"done", "crashed"} => StoredFromOneSnapshot
    /\ sy.rpc = "done" => SeenFromOneSnapshot
    /\ sy.pc \in {"done", "crashed"} =>
          \A b \in KnownBuckets(getTest(TestA)[1]) :
              parseOrZero(kvStats[TestA][b].conversions) <= parseOrZero(kvStats[TestA][b].views)

(***************************************************************************)
(* The management API on its own                                           *)
(***************************************************************************)
\* The names of the keys of the namespace, as text.
TestPrefix == <<"t", "e", "s", "t", ":">>
ConfigKey(testId) == TestPrefix \o testId
CounterKey(testId, field, bucket) ==
    TestPrefix \o testId \o <<":", field, "_">> \o bucket
ListKey == <<"t", "e", "s", "t", "s", ":", "l", "i", "s", "t">>
IndexKey == <<"t", "e", "s", "t", "s", "_", "i", "n", "d", "e", "x">>

\* The keys the namespace holds, each with the kind of text stored under
\* it and its value.
StoredKeys ==
    {[kind |-> "config", name |-> ConfigKey(t), value |-> kvConfigs[t][1]] :
        t \in {u \in TestIds : kvConfigs[u] # <<>>}}
      \cup UNION {{[kind |-> "counter", name |-> CounterKey(t, "views", b),
                     value |-> kvStats[t][b].views] :
                      b \in {c \in BucketIds : kvStats[t][c].views # Absent}} : t \in TestIds}
      \cup UNION {{[kind |-> "counter", name |-> CounterKey(t, "conversions", b),
                     value |-> kvStats[t][b].conversions] :
                      b \in {c \in BucketIds : kvStats[t][c].conversions # Absent}} :
                   t \in TestIds}
      \cup (IF testsList = <<>> THEN {}
            ELSE {[kind |-> "list", name |-> ListKey, value |-> testsList]})
      \cup (IF testsIndex = <<>> THEN {}
            ELSE {[kind |-> "index", name |-> IndexKey, value |-> testsIndex[1]]})

\* JSON.parse accepts the text of a key: the decimal text of a counter, which
\* it returns as a number, the text of an array, and the text of an object
\* unless it was garbled.
ParsesAsJSON(key) ==
    IF key.kind \in {"config", "index"} THEN Parses(key.value) ELSE TRUE

\* getAllTests: kv.list('test:'), then every listed key whose value is not
\* empty and parses is pushed.  An entry is held with the key it came from.
getAllTests ==
    {k \in StoredKeys : startsWith(k.name, TestPrefix) /\ ParsesAsJSON(k)}

\* GET /api/tests/list
ListTests ==
    /\ last' = [Idle EXCEPT !.op = "list", !.status = 200, !.tests = getAllTests]
    /\ UNCHANGED <<kvConfigs, testsIndex, kvStats, jar, ts, testsList, sy, cr>>

\* Values of Date.now() when a test is created.
Clock == {1, 2}

AdminCreateBodies == {ReqStatic2, ReqBx, ReqNoVariant, ReqOver, ReqNoControl}
AdminUpdateBodies == {ReqAdaptive, ReqMoved, ReqRenamed, ReqZeroControl, ReqNoControl}

NextAdmin ==
    \/ \E data \in AdminCreateBodies, timestamp \in Clock : CreateTest(data, timestamp)
    \/ \E testId \in TestIds, data \in AdminUpdateBodies : UpdateTest(testId, data)
    \/ \E testId \in TestIds : DeleteTest(testId)
    \/ SyncTest(TestA, <<SnapCold>>)
    \/ ListTests

SpecAdmin == InitFresh /\ [][NextAdmin]_vars

(***************************************************************************)
(* Properties of the management operations                                 *)
(***************************************************************************)
\* C21 (failed sync changes nothing): a sync of a test, through syncTest or
\* through POST /api/sync/[testId], whose GA4 query or token exchange fails
\* writes no counter of the test: the stored counters stay as they were.
C21_FailedSyncChangesNothing ==
    [][(last'.op \in {"sync", "syncOne"} /\ last'.fault = "ga4") =>
          UNCHANGED kvStats]_vars

\* The weights of a request body or of a stored test: controlPercentage and
\* every variant percentage in (0, 100], at least one variant, and a total
\* within 0.01 of 100.
WeightsConserved(config) ==
    /\ Defined(config, "controlPercentage")
    /\ config.controlPercentage > 0 /\ config.controlPercentage <= Hundred
    /\ Len(config.variants) >= 1
    /\ \A i \in 1..Len(config.variants) :
          config.variants[i].percentage > 0 /\ config.variants[i].percentage <= Hundred
    /\ Abs(config.controlPercentage + SumPct(config.variants) - Hundred) * 100 <= PctUnit

\* C22 (weight conservation): after any sequence of create and update
\* requests every stored test has its weights conserved, and a request
\* whose body violates one of the conditions is answered with HTTP 400 and
\* leaves KV as it was.
C22_WeightConservation ==
    /\ [](\A t \in TestIds : kvConfigs[t] # <<>> => WeightsConserved(kvConfigs[t][1]))
    /\ [][(last'.op \in {"create", "update"} /\ ~WeightsConserved(last'.body)) =>
             /\ last'.status = 400
             /\ UNCHANGED <<kvConfigs, testsIndex, testsList, kvStats>>]_vars

(***************************************************************************)
(* POST /api/tests/create, one KV operation at a time                      *)
(*                                                                         *)
(* Two requests are handled at once.  A handler awaits getTest, the put    *)
(* of saveTest, the get and the put of updateTestsIndex and the get and    *)
(* the put of addTestToList; the handlers interleave at every await, and   *)
(* each keeps the index and the list it read in its own local variable.    *)
(***************************************************************************)
RaceBodies == {ReqStatic2, ReqAdaptive, ReqB}

\* validateTestConfig and await getTest(potentialTestId): 400, 409, or the
\* test of createTestConfig, to be saved.
CreateCheck(p, data, timestamp) ==
    /\ cr[p].pc \in {"idle", "done"}
    /\ cr' = [cr EXCEPT ![p] =
                IF ~validateTestConfig(data)
                THEN [NoCreate[p] EXCEPT !.pc = "done", !.status = 400]
                ELSE IF getTest(slugify(data.name)) # <<>>
                THEN [NoCreate[p] EXCEPT !.pc = "done", !.status = 409]
                ELSE [NoCreate[p] EXCEPT !.pc = "save",
                                         !.test = <<createTestConfig(data, timestamp)>>]]
    /\ UNCHANGED <<kvConfigs, testsIndex, kvStats, jar, last, ts, testsList, sy>>

\* saveTest: await kv.put(key, JSON.stringify(test))
CreateSave(p) ==
    /\ cr[p].pc = "save"
    /\ kvConfigs' = [kvConfigs EXCEPT ![cr[p].test[1].id] = cr[p].test]
    /\ cr' = [cr EXCEPT ![p].pc = "indexGet"]
    /\ UNCHANGED <<testsIndex, kvStats, jar, last, ts, testsList, sy>>

\* updateTestsIndex: const indexData = await kv.get(indexKey)
CreateIndexGet(p) ==
    /\ cr[p].pc = "indexGet"
    /\ cr' = [cr EXCEPT ![p].pc = "indexPut", ![p].index = IndexObject(testsIndex)]
    /\ UNCHANGED <<kvConfigs, testsIndex, kvStats, jar, last, ts, testsList, sy>>

\* updateTestsIndex: index[test.entryPath] = ...; await kv.put(indexKey, ...)
CreateIndexPut(p) ==
    /\ cr[p].pc = "indexPut"
    /\ testsIndex' = StoredIndex(updateTestsIndex(cr[p].index, cr[p].test[1]))
    /\ cr' = [cr EXCEPT ![p].pc = "listGet", ![p].index = <<>>]
    /\ UNCHANGED <<kvConfigs, kvStats, jar, last, ts, testsList, sy>>

\* addTestToList: const testsListJson = await kv.get('tests:list')
CreateListGet(p) ==
    /\ cr[p].pc = "listGet"
    /\ cr' = [cr EXCEPT ![p].pc = "listPut", ![p].list = testsList]
    /\ UNCHANGED <<kvConfigs, testsIndex, kvStats, jar, last, ts, testsList, sy>>

\* addTestToList: the put of the list that was read with the id pushed, no
\* put when the list that was read includes the id; then the response.
CreateListPut(p) ==
    /\ cr[p].pc = "listPut"
    /\ testsList' = IF \E i \in 1..Len(cr[p].list) : cr[p].list[i] = cr[p].test[1].id
                    THEN testsList
                    ELSE addTestToList(cr[p].list, cr[p].test[1].id)
    /\ cr' = [cr EXCEPT ![p].pc = "done", ![p].status = 200, ![p].list = <<>>]
    /\ UNCHANGED <<kvConfigs, testsIndex, kvStats, jar, last, ts, sy>>

NextRace ==
    \E p \in Handlers :
        \/ \E data \in RaceBodies : CreateCheck(p, data, 1)
        \/ CreateSave(p)
        \/ CreateIndexGet(p)
        \/ CreateIndexPut(p)
        \/ CreateListGet(p)
        \/ CreateListPut(p)

SpecRace == InitFresh /\ [][NextRace]_vars

\* Both handlers answered 200.
BothCreated == \A p \in Handlers : cr[p].pc = "done" /\ cr[p].status = 200

\* C23 (create never overwrites): while tests are only created, a stored
\* configuration is never replaced: a create whose name slugifies to the
\* id of a stored test leaves the configuration, tests_index and tests:list
\* as they are, and of two create requests with the same name that are
\* handled at once at most one stores its configuration and is answered
\* 200.
C23_CreateNeverOverwrites ==
    /\ [][\A t \in TestIds : kvConfigs[t] # <<>> => kvConfigs'[t] = kvConfigs[t]]_vars
    /\ [](BothCreated => cr[1].test[1].id # cr[2].test[1].id)

\* C24 (the test list is the stored tests): after any sequence of create,
\* update, delete and stats-sync operations, GET /api/tests/list returns
\* one entry per stored test configuration, the configuration itself, and
\* nothing else: no entry comes from a counter key.
C24_ListIsStoredTests ==
    last.op = "list" =>
        last.tests = {[kind |-> "config", name |-> ConfigKey(t), value |-> kvConfigs[t][1]] :
                         t \in {u \in TestIds : kvConfigs[u] # <<>>}}

\* The stored index holds the entry of a test, the stored list its id.
Indexed(test) ==
    \E i \in 1..Len(IndexObject(testsIndex)) :
        IndexObject(testsIndex)[i] =
            [path |-> test.entryPath, id |-> test.id, entryPath |-> test.entryPath]
Listed(testId) == \E i \in 1..Len(testsList) : testsList[i] = testId

\* Both handlers answered 200, each for a test of its own.
BothCreatedApart == BothCreated /\ cr[1].test[1].id # cr[2].test[1].id

\* C25 (lost index update): two create requests for different tests that
\* are handled at once can leave tests_index, or tests:list, without one of
\* the two tests although both configurations are stored; the put of the
\* handler that wrote last is never lost, so that the index and the list
\* hold at least one of the two.
C25_LostIndexUpdate ==
    BothCreatedApart =>
        /\ \A p \in Handlers : kvConfigs[cr[p].test[1].id] # <<>>
        /\ \E p \in Handlers : Indexed(cr[p].test[1])
        /\ \E p \in Handlers : Listed(cr[p].test[1].id)

\* Both requests were answered 200 and both configurations are stored, and
\* the index lacks the entry of one test, the list the id of one.
W25_EntryLost ==
    /\ BothCreatedApart
    /\ \A p \in Handlers : kvConfigs[cr[p].test[1].id] # <<>>
    /\ \E p \in Handlers : ~Indexed(cr[p].test[1])
    /\ \E p \in Handlers : ~Listed(cr[p].test[1].id)

\* The multi-test worker redirects a first visit to the path for the test.
RoutesTo(path, testId) ==
    LET response == templateFetch(path, <<>>, 0, DefaultDraws, "none")
    IN  response.status = 302 /\ response.testId = testId

\* The status of the worker's answer to a first visit to the path.
StatusAt(path) == templateFetch(path, <<>>, 0, DefaultDraws, "none").status

\* C26 (index consistency): after any sequence of sequential create, update
\* and delete operations, every entry of tests_index maps its path to the
\* id of a stored test whose entryPath is that path, and every stored test
\* has exactly one entry; after a delete the router answers 404 on every
\* path that routed to the deleted test.
C26_IndexConsistent ==
    /\ [](LET index == IndexObject(testsIndex)
          IN  /\ \A i \in 1..Len(index) :
                    /\ getTest(index[i].id) # <<>>
                    /\ getTest(index[i].id)[1].entryPath = index[i].path
              /\ \A t \in TestIds :
                    getTest(t) # <<>> =>
                        Cardinality({i \in 1..Len(index) : index[i].id = t}) = 1)
    /\ [][last'.op = "delete" =>
             \A path \in Paths : RoutesTo(path, last'.testId) => StatusAt(path)' = 404]_vars

\* The variant ids of a stored test are variant1..variantN by position.
PositionalIds(test) ==
    \A i \in 1..Len(test.variants) :
        test.variants[i].id = <<"v", "a", "r", "i", "a", "n", "t", ToString(i)>>

\* C27 (update preserves identity): a successful update leaves the id,
\* createdAt and the view and conversion event names of the test as they
\* were, whatever name the body carries, and numbers the variants
\* variant1..variantN; in every stored test the variant ids are pairwise
\* distinct and none is "control".
C27_UpdatePreservesIdentity ==
    /\ [][(last'.op = "update" /\ last'.status = 200) =>
             LET before == kvConfigs[last'.testId][1]
                 after == kvConfigs'[last'.testId][1]
             IN  /\ after.id = before.id /\ after.id = last'.testId
                 /\ after.createdAt = before.createdAt
                 /\ after.eventNames = before.eventNames
                 /\ after.name = last'.body.name
                 /\ Len(after.variants) = Len(last'.body.variants)
                 /\ PositionalIds(after)]_vars
    /\ [](\A t \in TestIds :
            kvConfigs[t] # <<>> =>
                LET variants == kvConfigs[t][1].variants
                IN  /\ \A i, j \in 1..Len(variants) :
                          i # j => variants[i].id # variants[j].id
                    /\ \A i \in 1..Len(variants) : variants[i].id # controlId)

\* The first test, created at the second tick, was given the name of the
\* second by an update and kept its id, its createdAt and its event names.
W27_RenamedKeepsIdentity ==
    /\ last.op = "update" /\ last.status = 200 /\ last.testId = TestA
    /\ last.body.name = "B A"
    /\ kvConfigs[TestA][1].name = "B A"
    /\ kvConfigs[TestA][1].id = TestA
    /\ kvConfigs[TestA][1].createdAt = 2
    /\ kvConfigs[TestA][1].eventNames.view = <<"a", "_", "view">>

(***************************************************************************)
(* Properties of the cookie lookup and of the view event                   *)
(***************************************************************************)
\* C28 (cookie isolation): the lookup for test t returns the value of the
\* cookie named exactly t and nothing when the browser holds no such
\* cookie, whatever other cookies the header carries and in whatever
\* order; a redirected request of a browser without a cookie named as the
\* resolved test gets a fresh selection and the Set-Cookie binding it.
C28_CookieIsolation ==
    /\ \A t \in TestIds : \A order \in Orders(CookieNames) :
          getBucket(CookieHeader(jar, order), t) = jar[t]
    /\ Redirected =>
          /\ last.existing = last.cookies[last.testId]
          /\ last.cookies[last.testId] = <<>> =>
                /\ last.branch # "none"
                /\ last.setCookie = CookieValue(last.testId, last.bucket)

\* C29 (the view event reports the bucket served): the bucket id of the
\* view event of a redirected request is "control" or a variant id of the
\* current definition, and the request is redirected to the URL of that
\* bucket; a stale binding that is sent to the controlUrl is not reported
\* under the stale bucket id.
C29_EventReportsServedBucket ==
    (Redirected /\ last.event # <<>>) =>
        /\ last.event[1].bucket \in KnownBuckets(ServedConfig)
        /\ last.location = getTargetUrl(last.event[1].bucket, ServedConfig)

(***************************************************************************)
(* The scheduled sync of all tests                                         *)
(***************************************************************************)
\* What happens to the awaited operations of one syncTest call: all
\* succeed and GA4 answers with a report; the read of the configuration
\* fails, which kv.get turns into null; the token exchange or the GA4 query
\* fails; a kv.put of updateKVStats rejects after some puts were done.
SyncOutcomes ==
    {[kind |-> "ok", report |-> SnapCold, done |-> 0],
     [kind |-> "get", report |-> SnapCold, done |-> 0],
     [kind |-> "ga4", report |-> SnapCold, done |-> 0],
     [kind |-> "put", report |-> SnapCold, done |-> 0],
     [kind |-> "put", report |-> SnapCold, done |-> 1]}

\* The puts of updateKVStats, in order.
counterPuts(test, stats) ==
    LET keys == CounterKeys(variantKeys(test))
    IN  [i \in 1..Len(keys) |->
            [bucket |-> keys[i].bucket, field |-> keys[i].field,
             value |-> IF keys[i].field = "views" THEN stats[keys[i].bucket].views
                       ELSE stats[keys[i].bucket].conversions]]

\* The counters of a test after the first n of the puts.
RECURSIVE applyPuts(_, _, _)
applyPuts(stored, puts, n) ==
    IF n = 0 THEN stored
    ELSE LET before == applyPuts(stored, puts, n - 1)
             put == puts[n]
         IN  IF put.field = "views"
             THEN [before EXCEPT ![put.bucket].views = put.value]
             ELSE [before EXCEPT ![put.bucket].conversions = put.value]

\* syncTest(testId) on the counters stats: the SyncResult and the counters
\* it leaves.
syncTest(stats, testId, outcome) ==
    LET failure == [result |-> [testId |-> testId, success |-> FALSE, views |-> <<>>],
                    stats |-> stats]
    IN  IF outcome.kind = "get" \/ kvConfigs[testId] = <<>> THEN failure
        ELSE IF ~Parses(kvConfigs[testId][1]) THEN failure
        ELSE IF outcome.kind = "ga4" THEN failure
        ELSE
        LET test == kvConfigs[testId][1]
            ga4Stats == queryGA4Stats(test, outcome.report)
            puts == counterPuts(test, ga4Stats)
        IN  IF outcome.kind = "put"
            THEN [failure EXCEPT
                     !.stats = [stats EXCEPT ![testId] = applyPuts(@, puts, outcome.done)]]
            ELSE [result |-> [testId |-> testId, success |-> TRUE,
                              views |-> [b \in KnownBuckets(test) |-> ga4Stats[b].views]],
                  stats |-> [stats EXCEPT ![testId] = applyPuts(@, puts, Len(puts))]]

RECURSIVE M_syncEach_stopAtFailure(_, _, _, _)
M_syncEach_stopAtFailure(testIds, outcomes, stats, results) ==
    IF Len(results) = Len(testIds) THEN [results |-> results, stats |-> stats]
    ELSE LET i == Len(results) + 1
             one == syncTest(stats, testIds[i], outcomes[i])
         IN  IF ~one.result.success
             THEN [results |-> Append(results, one.result), stats |-> one.stats]
             ELSE M_syncEach_stopAtFailure(testIds, outcomes, one.stats,
                                           Append(results, one.result))

\* for (const testId of testIds) { results.push(await syncTest(testId)) }
RECURSIVE syncEach(_, _, _, _)
syncEach(testIds, outcomes, stats, results) ==
    IF Len(results) = Len(testIds) THEN [results |-> results, stats |-> stats]
    ELSE LET i == Len(results) + 1
             one == syncTest(stats, testIds[i], outcomes[i])
         IN  syncEach(testIds, outcomes, one.stats, Append(results, one.result))

\* GET or POST /api/sync: syncAllTests over the ids of tests:list.
SyncAll ==
    \E outcomes \in [1..Len(testsList) -> SyncOutcomes] :
        LET all == syncEach(testsList, outcomes, kvStats, <<>>)
            succeeded == Cardinality({i \in 1..Len(all.results) : all.results[i].success})
            unsuccessful == Cardinality({i \in 1..Len(all.results) : ~all.results[i].success})
        IN  /\ kvStats' = all.stats
            /\ last' = [Idle EXCEPT !.op = "syncAll", !.status = 200,
                                    !.report = outcomes,
                                    !.summary = <<[total |-> Len(testsList),
                                                   successful |-> succeeded,
                                                   failed |-> unsuccessful,
                                                   results |-> all.results]>>]
            /\ UNCHANGED <<kvConfigs, testsIndex, jar, ts, testsList, sy, cr>>

NextCron ==
    \/ \E data \in {ReqStatic2, ReqBx} : CreateTest(data, 1)
    \/ \E testId \in TestIds : DeleteTest(testId)
    \/ SyncAll

SpecCron == InitFresh /\ [][NextCron]_vars

\* C30 (syncAllTests isolates failures): every id of tests:list is
\* attempted exactly once and in list order; a test whose sync fails
\* (configuration not read, GA4 error, KV write error) has a failed result
\* and the tests after it are synced all the same; total = successful +
\* failed = the number of ids in the list.
C30_SyncAllIsolatesFailures ==
    last.op = "syncAll" =>
        LET summary == last.summary[1]
            results == summary.results
        IN  /\ Len(results) = Len(testsList)
            /\ \A i \in 1..Len(testsList) :
                  /\ results[i].testId = testsList[i]
                  /\ results[i].success <=>
                        (last.report[i].kind = "ok" /\ getTest(testsList[i]) # <<>>)
                  /\ results[i].success =>
                        \A b \in KnownBuckets(getTest(testsList[i])[1]) :
                            /\ kvStats[testsList[i]][b] = last.report[i].report[b]
                            /\ results[i].views[b] = last.report[i].report[b].views
            /\ summary.total = Len(testsList)
            /\ summary.total = summary.successful + summary.failed
            /\ summary.successful =
                  Cardinality({i \in 1..Len(results) : results[i].success})

\* The sync of the first test of the list failed at GA4 and the second
\* test was synced.
W30_SecondSyncedAfterFailure ==
    /\ last.op = "syncAll"
    /\ Len(testsList) = 2
    /\ last.report[1].kind = "ga4"
    /\ ~last.summary[1].results[1].success
    /\ last.summary[1].results[2].success
    /\ last.summary[1].failed = 1 /\ last.summary[1].successful = 1
    /\ kvStats[testsList[2]][controlId] = SnapCold[controlId]

====
